---- MODULE Spec2Model ----
\* PsycheScore: the Compact contract psychescore.compact (computeAndStoreScore,
\* verifyScore, updateMLModel) and its ledger, as given in
\* psychescore/docs/MIDNIGHT_NETWORK_MIGRATION_PLAN.md, lines 70-141.
\* generateProof (psychescore-mn/src/utils/generateProof.js) is the JavaScript
\* caller of computeAndStoreScore.
EXTENDS Integers, Sequences, FiniteSets, TLC

\* ---------------------------------------------------------------- bounds
\* Number of computeAndStoreScore invocations that callers may have open at once.
NumCalls == 2
\* Length of encrypted_responses ([Field; 50] in the contract, scaled down).
NumResponses == 2
\* Length of koios_features ([Field; 4] in the contract, scaled down).
NumFeatures == 1
\* Order of the arithmetic of type Field (scaled down).
FieldModulus == 251

\* ml_model_weights has one weight per response and per feature (54 = 50 + 4).
NumWeights == NumResponses + NumFeatures

Calls == 1..NumCalls
Address == {"addr1", "addr2"}
ResponseVals == {1, 2}
FeatureVals == {0, 1}
WeightVals == {0, 50}
BiasVals == {50, FieldModulus - 50}
CommitmentVals == NumResponses..(NumResponses + 1)
ExpectedVals == {0, 50}
HashVals == {0, 1}
SignatureVals == {"valid", "invalid"}

\* The argument vectors callers pass: every response vector over ResponseVals,
\* the feature vectors with one value throughout, and the weight vectors with
\* at most one non-zero weight (at every position in turn).
Responses == [1..NumResponses -> ResponseVals]
Features == {[i \in 1..NumFeatures |-> v] : v \in FeatureVals}
Weights == {[i \in 1..NumWeights |-> IF i = h THEN 50 ELSE 0] : h \in 0..NumWeights}

\* ------------------------------------------------------------ arithmetic
\* + and * on Field.
FieldAdd(a, b) == (a + b) % FieldModulus
FieldMul(a, b) == (a * b) % FieldModulus

\* for i in 0..n { acc = acc + (xs[i] * ws[offset + i]); }
RECURSIVE Accumulate(_, _, _, _, _)
Accumulate(acc, xs, ws, offset, i) ==
    IF i > Len(xs) THEN acc
    ELSE Accumulate(FieldAdd(acc, FieldMul(xs[i], ws[offset + i])), xs, ws, offset, i + 1)

\* computed_score after the two loops of computeAndStoreScore.
ComputeScore(responses, features, weights, bias) ==
    Accumulate(Accumulate(bias, responses, weights, 0, 1), features, weights, NumResponses, 1)

\* calculated_commitment after its loop.
RECURSIVE SumFrom(_, _, _)
SumFrom(acc, xs, i) ==
    IF i > Len(xs) THEN acc ELSE SumFrom(FieldAdd(acc, xs[i]), xs, i + 1)

\* Variant of CalculateCommitment: the loop starts at the second response.
CalculateCommitmentFromSecond(responses) == SumFrom(0, responses, 2)

CalculateCommitment(responses) == SumFrom(0, responses, 1)

\* Variant of ScoreInRange: the upper assert is strict.
ScoreInRangeBelowHundred(score) == score >= 0 /\ score < 100

\* Variant of ScoreInRange: the upper assert is missing.
ScoreInRangeNoUpper(score) == score >= 0

\* assert(computed_score >= 0); assert(computed_score <= 100);
ScoreInRange(score) == score >= 0 /\ score <= 100

\* assert(calculated_commitment == response_commitment);
CommitmentMatches(responses, commitment) == CalculateCommitment(responses) = commitment

\* ---------------------------------------------------------------- state
VARIABLES
    user_scores,        \* ledger user_scores: Map<Address, uint32>
    score_commitments,  \* ledger score_commitments: Map<Address, bytes32>
    ml_model_hash,      \* ledger ml_model_hash
    survey_responses,   \* ledger survey_responses: Map<Address, bytes>
    call,               \* the open invocations of computeAndStoreScore: arguments, locals, position
    latest,             \* per address, the last invocation that ran to its end with no failed assert
    ret,                \* what the last operation returned to its caller
    app,                \* the App component: its state and its open handleConnect calls
    dapp,               \* the PsycheScoreDApp component: its state and its open request
    survey              \* the SurveyComponent: its state and its open request

\* The state of the contract and of its callers.
contract ==
    <<user_scores, score_commitments, ml_model_hash, survey_responses, call, latest, ret>>

\* The state of the React components.
ui == <<app, dapp, survey>>

vars == <<contract, ui>>

\* Variant of Put: an insert that keeps the value of a key already present.
PutIfAbsent(m, k, v) ==
    IF k \in DOMAIN m THEN m ELSE [x \in (DOMAIN m) \cup {k} |-> IF x = k THEN v ELSE m[x]]

\* m[k] = v on a ledger Map.
Put(m, k, v) == [x \in (DOMAIN m) \cup {k} |-> IF x = k THEN v ELSE m[x]]

EmptyMap == [x \in {} |-> 0]

Ledger == [scores |-> user_scores, commitments |-> score_commitments]

\* via is the caller, the host of the circuit ("circuit") or generateProof;
\* originalState and timestamp are the context that generateProof passes.
NoCall ==
    [pc |-> "idle", via |-> "circuit", wallet_address |-> "addr1",
     encrypted_responses |-> <<>>, koios_features |-> <<>>, ml_model_weights |-> <<>>,
     ml_model_bias |-> 0, response_commitment |-> 0, computed_score |-> 0,
     originalState |-> "none", timestamp |-> 0,
     pre |-> [scores |-> EmptyMap, commitments |-> EmptyMap]]

\* proof: whether the caller was handed proofData; thrown: whether the call
\* ended with an exception that reached the caller; admin_signature: the
\* signature updateMLModel was called with.
NoRet ==
    [op |-> "none", wallet_address |-> "addr1", expected |-> 0, result |-> "none",
     proof |-> FALSE, thrown |-> FALSE, admin_signature |-> "none"]

NeverStored == [stored |-> FALSE, score |-> 0, of_responses |-> 0, supplied |-> 0]

\* The default value of Opaque<"uint32">.
DefaultScore == 0

BoolStr(b) == IF b THEN "true" ELSE "false"

\* ---------------------------------------------------------- App (App.tsx)
\* Number of handleConnect calls that may be awaiting the wallet at once.
NumConnects == 2

Connects == 1..NumConnects

\* A handleConnect call: where it stands, its locals connected and address,
\* and what the wallet has answered to it so far.
NoConnect ==
    [pc |-> "idle", connected |-> FALSE, address |-> "null",
     enableResolved |-> FALSE, isEnabled |-> FALSE]

\* useState(false), useState(null); alert is the last alert shown.
AppInit ==
    [isConnected |-> FALSE, walletAddress |-> "null", alert |-> "none",
     handleConnect |-> [i \in Connects |-> NoConnect]]

\* --------------------------------- PsycheScoreDApp and SurveyComponent
\* Number of entries of BIG_FIVE_QUESTIONS (scaled down).
NumQuestions == 2

\* currentQuestion is an index into BIG_FIVE_QUESTIONS.
QuestionIndex == 0..(NumQuestions - 1)

\* Values of RESPONSE_SCALE (its two ends).
ResponseScale == {1, 5}

\* responses[q.id] of a question with no answer: undefined, which the test
\* !responses[q.id] takes as it takes 0.
Unanswered == 0

\* result.ml_score of the backend.
MlScores == {0, 50}

\* Number of handleSubmit calls that may be awaiting the backend at once.
NumSubmits == 2

Submits == 1..NumSubmits

\* No fetch is open.
NoRequest == [pc |-> "none", wallet_address |-> "null", survey_responses |-> <<>>]

\* useState(0), useState({}), useState(false), useState(null) of a
\* SurveyComponent that has just been mounted; request holds the handleSubmit
\* calls that await the backend.
SurveyInit ==
    [currentQuestion |-> 0, responses |-> [q \in QuestionIndex |-> Unanswered],
     isSubmitting |-> FALSE, error |-> "null",
     request |-> [r \in Submits |-> NoRequest]]

\* The useState values of PsycheScoreDApp: null is the empty set for the
\* score and the empty sequence for the responses. alert is the last alert of
\* handleSubmitToBlockchain, lastSubmit how the last handleSubmit of the
\* survey ended.
DAppInit ==
    [showSurvey |-> FALSE, surveyCompleted |-> FALSE, surveyScore |-> {},
     surveyResponses |-> <<>>, blockchain |-> NoRequest, alert |-> "none",
     lastSubmit |-> "none"]

InitContract ==
    /\ user_scores = EmptyMap
    /\ score_commitments = EmptyMap
    /\ ml_model_hash = 0
    /\ survey_responses = EmptyMap
    /\ call = [c \in Calls |-> NoCall]
    /\ latest = [a \in Address |-> NeverStored]
    /\ ret = NoRet

Init ==
    /\ app = AppInit
    /\ dapp = DAppInit
    /\ survey = SurveyInit
    /\ InitContract

\* Variant of Idle: the circuit suspends between its steps, so that operations
\* start while an invocation is inside it.
IdleAsync == TRUE

\* A circuit is called synchronously and has no suspension point: an operation
\* starts only when no invocation is inside computeAndStoreScore.
Idle == \A c \in Calls : call[c].pc = "idle"

\* ------------------------------------------------- computeAndStoreScore
\* Variant of Invoke: the range asserts are missing, the commitment check is
\* the first check of the circuit.
InvokeNoRangeAssert(c, responses, features, weights, bias, addr, commitment) ==
    /\ Idle
    /\ call[c].pc = "idle"
    /\ \A d \in Calls : d < c => call[d].pc # "idle"
    /\ call' = [call EXCEPT ![c] =
                  [NoCall EXCEPT
                     !.pc = "verifyCommitment", !.wallet_address = addr,
                     !.encrypted_responses = responses, !.ml_model_bias = bias,
                     !.response_commitment = commitment,
                     !.computed_score = ComputeScore(responses, features, weights, bias),
                     !.pre = Ledger]]
    /\ ret' = NoRet
    /\ UNCHANGED <<ui, survey_responses, user_scores, score_commitments, ml_model_hash, latest>>

\* Entry and the two loops that compute computed_score.
Invoke(c, responses, features, weights, bias, addr, commitment) ==
    /\ Idle
    /\ call[c].pc = "idle"
    /\ \A d \in Calls : d < c => call[d].pc # "idle"
    /\ call' = [call EXCEPT ![c] =
                  [NoCall EXCEPT
                     !.pc = "assertRange", !.wallet_address = addr,
                     !.encrypted_responses = responses, !.ml_model_bias = bias,
                     !.response_commitment = commitment,
                     !.computed_score = ComputeScore(responses, features, weights, bias),
                     !.pre = Ledger]]
    /\ ret' = NoRet
    /\ UNCHANGED <<ui, survey_responses, user_scores, score_commitments, ml_model_hash, latest>>

\* Variant of Return: generateProof has no catch branch.
ReturnUncaught(c, outcome) ==
    [NoRet EXCEPT
       !.op = IF call[c].via = "generateProof" THEN "generateProof"
              ELSE "computeAndStoreScore",
       !.wallet_address = call[c].wallet_address,
       !.result = outcome,
       !.proof = (outcome = "ok"),
       !.thrown = (outcome # "ok")]

\* The invocation ends: with "ok" at the end of the circuit, with the error of
\* the failed assert otherwise. The circuit returns { result, proofData } at its
\* end and throws at a failed assert; generateProof passes proofData on in its
\* success branch, and its catch branch returns { success: false, error } only,
\* so what the circuit throws reaches the caller of the circuit and not the
\* caller of generateProof.
Return(c, outcome) ==
    [NoRet EXCEPT
       !.op = IF call[c].via = "generateProof" THEN "generateProof"
              ELSE "computeAndStoreScore",
       !.wallet_address = call[c].wallet_address,
       !.result = outcome,
       !.proof = (outcome = "ok"),
       !.thrown = (outcome # "ok" /\ call[c].via # "generateProof")]

\* Variant of AssertRange: an out-of-range score is clamped to 100 and the
\* invocation goes on.
AssertRangeClamp(c) ==
    /\ call[c].pc = "assertRange"
    /\ call' = [call EXCEPT ![c].pc = "verifyCommitment",
                            ![c].computed_score =
                                IF call[c].computed_score <= 100 THEN call[c].computed_score ELSE 100]
    /\ UNCHANGED <<ui, survey_responses, user_scores, score_commitments, ml_model_hash, latest, ret>>

\* Variant of AssertRange: a failed assert resets the entry of the address to
\* the VACANT originalState of the context.
AssertRangeResetsEntry(c) ==
    /\ call[c].pc = "assertRange"
    /\ IF ScoreInRange(call[c].computed_score)
       THEN /\ call' = [call EXCEPT ![c].pc = "verifyCommitment"]
            /\ ret' = ret
            /\ UNCHANGED <<user_scores, score_commitments>>
       ELSE /\ call' = [call EXCEPT ![c] = NoCall]
            /\ ret' = Return(c, "RangeError")
            /\ user_scores' =
                 [x \in DOMAIN user_scores \ {call[c].wallet_address} |-> user_scores[x]]
            /\ score_commitments' =
                 [x \in DOMAIN score_commitments \ {call[c].wallet_address} |->
                    score_commitments[x]]
    /\ UNCHANGED <<ui, survey_responses, ml_model_hash, latest>>

\* assert(computed_score >= 0); assert(computed_score <= 100);
AssertRange(c) ==
    /\ call[c].pc = "assertRange"
    /\ IF ScoreInRange(call[c].computed_score)
       THEN /\ call' = [call EXCEPT ![c].pc = "verifyCommitment"]
            /\ ret' = ret
       ELSE /\ call' = [call EXCEPT ![c] = NoCall]
            /\ ret' = Return(c, "RangeError")
    /\ UNCHANGED <<ui, survey_responses, user_scores, score_commitments, ml_model_hash, latest>>

\* Variant of VerifyCommitment: the commitment is not compared.
VerifyCommitmentLenient(c) ==
    /\ call[c].pc = "verifyCommitment"
    /\ call' = [call EXCEPT ![c].pc = "storeScore"]
    /\ UNCHANGED <<ui, survey_responses, user_scores, score_commitments, ml_model_hash, latest, ret>>

\* Variant of VerifyCommitment: the score is written before the commitment is
\* asserted, and a failed assert does not undo the write.
VerifyCommitmentAfterWrite(c) ==
    /\ call[c].pc = "verifyCommitment"
    /\ user_scores' = Put(user_scores, call[c].wallet_address, call[c].computed_score)
    /\ IF CommitmentMatches(call[c].encrypted_responses, call[c].response_commitment)
       THEN /\ call' = [call EXCEPT ![c].pc = "storeCommitment"]
            /\ ret' = ret
       ELSE /\ call' = [call EXCEPT ![c] = NoCall]
            /\ ret' = Return(c, "CommitmentMismatch")
    /\ UNCHANGED <<ui, survey_responses, score_commitments, ml_model_hash, latest>>

\* The commitment loop and assert(calculated_commitment == response_commitment);
VerifyCommitment(c) ==
    /\ call[c].pc = "verifyCommitment"
    /\ IF CommitmentMatches(call[c].encrypted_responses, call[c].response_commitment)
       THEN /\ call' = [call EXCEPT ![c].pc = "storeScore"]
            /\ ret' = ret
       ELSE /\ call' = [call EXCEPT ![c] = NoCall]
            /\ ret' = Return(c, "CommitmentMismatch")
    /\ UNCHANGED <<ui, survey_responses, user_scores, score_commitments, ml_model_hash, latest>>

\* Variant of StoreScore: the score is written under one fixed key.
StoreScoreFixedKey(c) ==
    /\ call[c].pc = "storeScore"
    /\ user_scores' = Put(user_scores, "addr1", call[c].computed_score)
    /\ call' = [call EXCEPT ![c].pc = "storeCommitment"]
    /\ UNCHANGED <<ui, survey_responses, score_commitments, ml_model_hash, latest, ret>>

\* user_scores[wallet_address] = disclose(Opaque<"uint32">(computed_score));
\* computed_score is at most 100 here, so the cast to uint32 keeps its value.
StoreScore(c) ==
    /\ call[c].pc = "storeScore"
    /\ user_scores' = Put(user_scores, call[c].wallet_address, call[c].computed_score)
    /\ call' = [call EXCEPT ![c].pc = "storeCommitment"]
    /\ UNCHANGED <<ui, survey_responses, score_commitments, ml_model_hash, latest, ret>>

\* Variant of StoreCommitment: the responses are kept in the ledger map
\* survey_responses next to their commitment.
StoreCommitmentKeepsResponses(c) ==
    /\ call[c].pc = "storeCommitment"
    /\ score_commitments' =
         Put(score_commitments, call[c].wallet_address, call[c].response_commitment)
    /\ survey_responses' =
         Put(survey_responses, call[c].wallet_address, call[c].encrypted_responses)
    /\ call' = [call EXCEPT ![c] = NoCall]
    /\ ret' = Return(c, "ok")
    /\ latest' = [latest EXCEPT ![call[c].wallet_address] =
                    [stored |-> TRUE, score |-> call[c].computed_score,
                     of_responses |-> CalculateCommitment(call[c].encrypted_responses),
                     supplied |-> call[c].response_commitment]]
    /\ UNCHANGED <<ui, user_scores, ml_model_hash>>

\* score_commitments[wallet_address] = response_commitment; and the return.
StoreCommitment(c) ==
    /\ call[c].pc = "storeCommitment"
    /\ score_commitments' =
         Put(score_commitments, call[c].wallet_address, call[c].response_commitment)
    /\ call' = [call EXCEPT ![c] = NoCall]
    /\ ret' = Return(c, "ok")
    /\ latest' = [latest EXCEPT ![call[c].wallet_address] =
                    [stored |-> TRUE, score |-> call[c].computed_score,
                     of_responses |-> CalculateCommitment(call[c].encrypted_responses),
                     supplied |-> call[c].response_commitment]]
    /\ UNCHANGED <<ui, survey_responses, user_scores, ml_model_hash>>

\* ----------------------------------------------------------- generateProof
\* ml_model_bias: 50, // Default bias
DefaultBias == 50

\* Values of Date.now() at the calls of generateProof.
Timestamps == {1, 2}

\* What a caller hands to generateProof as survey_responses, koios_features
\* and ml_weights: vectors of the lengths the circuit declares, and for each of
\* the three one input where it has another length.
InputData ==
    (Responses \X Features \X Weights)
    \cup {<<[i \in 1..(NumResponses - 1) |-> 1],
            [i \in 1..NumFeatures |-> 1], [i \in 1..NumWeights |-> 0]>>,
          <<[i \in 1..NumResponses |-> 1],
            [i \in 1..(NumFeatures + 1) |-> 1], [i \in 1..NumWeights |-> 0]>>,
          <<[i \in 1..NumResponses |-> 1],
            [i \in 1..NumFeatures |-> 1], [i \in 1..(NumWeights - 1) |-> 0]>>}

\* responses.reduce((sum, response) => sum + response, 0): a sum of numbers,
\* not of Field elements.
RECURSIVE JsSum(_, _, _)
JsSum(sum, xs, i) ==
    IF i > Len(xs) THEN sum ELSE JsSum(sum + xs[i], xs, i + 1)

\* Variant of calculateCommitment: the reduce starts from 1.
calculateCommitmentSeedOne(responses) == JsSum(1, responses, 1)

calculateCommitment(responses) == JsSum(0, responses, 1)

\* The parameter types of the circuit: [Field; 50], [Field; 4], [Field; 54].
WellShaped(responses, features, weights) ==
    /\ Len(responses) = NumResponses
    /\ Len(features) = NumFeatures
    /\ Len(weights) = NumWeights

\* generateProof up to the call of the circuit: surveyData with the default
\* bias and the commitment calculated from the responses, the context with
\* originalState VACANT and the timestamp.
GenerateProof(c, responses, features, weights, addr, now) ==
    /\ Idle
    /\ call[c].pc = "idle"
    /\ \A d \in Calls : d < c => call[d].pc # "idle"
    /\ call' = [call EXCEPT ![c] =
                  [NoCall EXCEPT
                     !.pc = "callCircuit", !.via = "generateProof",
                     !.wallet_address = addr,
                     !.encrypted_responses = responses,
                     !.koios_features = features,
                     !.ml_model_weights = weights,
                     !.ml_model_bias = DefaultBias,
                     !.response_commitment = calculateCommitment(responses),
                     !.originalState = "VACANT",
                     !.timestamp = now,
                     !.pre = Ledger]]
    /\ ret' = NoRet
    /\ UNCHANGED <<ui, survey_responses, user_scores, score_commitments, ml_model_hash, latest>>

\* Variant of CallCircuit: the timestamp of the context is added to the score.
CallCircuitReadsClock(c) ==
    /\ call[c].pc = "callCircuit"
    /\ WellShaped(call[c].encrypted_responses, call[c].koios_features,
                  call[c].ml_model_weights)
    /\ call' = [call EXCEPT
                  ![c].pc = "assertRange",
                  ![c].computed_score =
                     FieldAdd(ComputeScore(call[c].encrypted_responses, call[c].koios_features,
                                           call[c].ml_model_weights, call[c].ml_model_bias),
                              call[c].timestamp),
                  ![c].koios_features = <<>>,
                  ![c].ml_model_weights = <<>>]
    /\ UNCHANGED <<ui, survey_responses, user_scores, score_commitments, ml_model_hash, latest, ret>>

\* contract.circuits.computeAndStoreScore(context, surveyData): a vector that is
\* not of the parameter type is refused at the call, otherwise the circuit is
\* entered and its two loops compute computed_score.
CallCircuit(c) ==
    /\ call[c].pc = "callCircuit"
    /\ IF WellShaped(call[c].encrypted_responses, call[c].koios_features,
                     call[c].ml_model_weights)
       THEN /\ call' = [call EXCEPT
                          ![c].pc = "assertRange",
                          ![c].computed_score =
                             ComputeScore(call[c].encrypted_responses, call[c].koios_features,
                                          call[c].ml_model_weights, call[c].ml_model_bias),
                          ![c].koios_features = <<>>,
                          ![c].ml_model_weights = <<>>]
            /\ ret' = ret
       ELSE /\ call' = [call EXCEPT ![c] = NoCall]
            /\ ret' = Return(c, "ShapeError")
    /\ UNCHANGED <<ui, survey_responses, user_scores, score_commitments, ml_model_hash, latest>>

\* ------------------------------------------------------------ verifyScore
\* let stored_score = user_scores[wallet_address];
\* return disclose(stored_score == expected_score);
\* The contract does not test membership before the read. What a read of a
\* key that is not in the Map yields is not fixed by the contract: the default
\* value of the value type, a value equal to no score, or a failed lookup.
VerifyResults(addr, expected) ==
    IF addr \in DOMAIN user_scores
    THEN {BoolStr(user_scores[addr] = expected)}
    ELSE {BoolStr(DefaultScore = expected), "false", "error"}

\* Variant of VerifyScore: the read inserts the default value under a missing key.
VerifyScoreInsertDefault(addr, expected) ==
    /\ Idle
    /\ user_scores' = PutIfAbsent(user_scores, addr, DefaultScore)
    /\ ret' = [NoRet EXCEPT !.op = "verifyScore", !.wallet_address = addr,
                            !.expected = expected,
                            !.result = BoolStr(user_scores'[addr] = expected)]
    /\ UNCHANGED <<ui, survey_responses, score_commitments, ml_model_hash, call, latest>>

VerifyScore(addr, expected) ==
    /\ Idle
    /\ \E r \in VerifyResults(addr, expected) :
         ret' = [NoRet EXCEPT !.op = "verifyScore", !.wallet_address = addr,
                              !.expected = expected, !.result = r]
    /\ UNCHANGED <<ui, survey_responses, user_scores, score_commitments, ml_model_hash, call, latest>>

\* ---------------------------------------------------------- updateMLModel
\* ml_model_hash = new_model_hash; (admin_signature is not read)
UpdateMLModel(new_model_hash, admin_signature) ==
    /\ Idle
    /\ ml_model_hash' = new_model_hash
    /\ ret' = [NoRet EXCEPT !.op = "updateMLModel", !.result = "ok",
                            !.admin_signature = admin_signature]
    /\ UNCHANGED <<ui, survey_responses, user_scores, score_commitments, call, latest>>

Next ==
    \/ \E c \in Calls, r \in Responses, f \in Features, w \in Weights,
          b \in BiasVals, a \in Address, k \in CommitmentVals :
         Invoke(c, r, f, w, b, a, k)
    \/ \E c \in Calls : AssertRange(c)
    \/ \E c \in Calls : VerifyCommitment(c)
    \/ \E c \in Calls : StoreScore(c)
    \/ \E c \in Calls : StoreCommitment(c)
    \/ \E a \in Address, s \in ExpectedVals : VerifyScore(a, s)
    \/ \E h \in HashVals, g \in SignatureVals : UpdateMLModel(h, g)

Spec == Init /\ [][Next]_vars

\* The contract as generateProof drives it.
NextProof ==
    \/ \E c \in Calls, d \in InputData, a \in Address, t \in Timestamps :
         GenerateProof(c, d[1], d[2], d[3], a, t)
    \/ \E c \in Calls : CallCircuit(c)
    \/ \E c \in Calls : AssertRange(c)
    \/ \E c \in Calls : VerifyCommitment(c)
    \/ \E c \in Calls : StoreScore(c)
    \/ \E c \in Calls : StoreCommitment(c)

SpecProof == Init /\ [][NextProof]_vars

\* ================================================================== App
\* A handleConnect call is inside its last two statements, setIsConnected and
\* setWalletAddress, with the component rendered in between: no other handler
\* runs until it has left them.
Rendering == \E i \in Connects : app.handleConnect[i].pc = "setWalletAddress"

\* What state() resolves with.
WalletAddresses == Address

\* setIsConnected(connected); setWalletAddress(address); at the end of
\* handleConnect, after an await. Whether the two updates are rendered as one
\* or the component is rendered between them is decided by the React root the
\* application is mounted on, which the source does not show: both happen.
Finish(i, connected, address, alert) ==
    \/ app' = [app EXCEPT !.isConnected = connected, !.walletAddress = address,
                          !.alert = alert, !.handleConnect[i] = NoConnect]
    \/ app' = [app EXCEPT !.isConnected = connected, !.alert = alert,
                          !.handleConnect[i] =
                             [NoConnect EXCEPT !.pc = "setWalletAddress",
                                               !.connected = connected,
                                               !.address = address]]

\* onConnect (the button is rendered while isConnected is false): without
\* window.midnight.mnLace the handler alerts and returns, otherwise it calls
\* enable() and awaits it.
HandleConnect(i, present) ==
    /\ ~Rendering
    /\ ~app.isConnected
    /\ app.handleConnect[i].pc = "idle"
    /\ \A j \in Connects : j < i => app.handleConnect[j].pc # "idle"
    /\ IF present
       THEN app' = [app EXCEPT !.handleConnect[i] = [NoConnect EXCEPT !.pc = "enable"]]
       ELSE app' = [app EXCEPT !.alert = "not detected"]
    /\ UNCHANGED <<contract, dapp, survey>>

\* enable() settles: resolved, the handler calls isEnabled(); rejected, the
\* catch block alerts and the handler ends.
EnableSettles(i, resolved) ==
    /\ ~Rendering
    /\ app.handleConnect[i].pc = "enable"
    /\ IF resolved
       THEN app' = [app EXCEPT !.handleConnect[i].pc = "isEnabled",
                               !.handleConnect[i].enableResolved = TRUE]
       ELSE Finish(i, FALSE, "null", "failed")
    /\ UNCHANGED <<contract, dapp, survey>>

\* Variant of IsEnabledSettles: the answer of isEnabled() is not tested.
IsEnabledSettlesUntested(i, answer) ==
    /\ ~Rendering
    /\ app.handleConnect[i].pc = "isEnabled"
    /\ IF answer \in {"true", "false"}
       THEN app' = [app EXCEPT !.handleConnect[i].pc = "state",
                               !.handleConnect[i].isEnabled = (answer = "true"),
                               !.handleConnect[i].connected = TRUE]
       ELSE Finish(i, FALSE, "null", "failed")
    /\ UNCHANGED <<contract, dapp, survey>>

\* isEnabled() settles: true, connected = true and state() is called; false,
\* the handler alerts and ends; rejected, the catch block alerts and it ends.
IsEnabledSettles(i, answer) ==
    /\ ~Rendering
    /\ app.handleConnect[i].pc = "isEnabled"
    /\ CASE answer = "true" ->
              app' = [app EXCEPT !.handleConnect[i].pc = "state",
                                 !.handleConnect[i].isEnabled = TRUE,
                                 !.handleConnect[i].connected = TRUE]
         [] answer = "false" -> Finish(i, FALSE, "null", "not authorized")
         [] OTHER -> Finish(i, FALSE, "null", "failed")
    /\ UNCHANGED <<contract, dapp, survey>>

\* state() settles: resolved, address = state.address; rejected, the catch
\* block alerts; the handler ends with connected = true in both cases.
StateSettles(i, answer) ==
    /\ ~Rendering
    /\ app.handleConnect[i].pc = "state"
    /\ IF answer \in WalletAddresses
       THEN Finish(i, app.handleConnect[i].connected, answer, app.alert)
       ELSE Finish(i, app.handleConnect[i].connected, "null", "failed")
    /\ UNCHANGED <<contract, dapp, survey>>

\* setWalletAddress(address) after the component was rendered with the new
\* isConnected.
SetWalletAddress(i) ==
    /\ app.handleConnect[i].pc = "setWalletAddress"
    /\ app' = [app EXCEPT !.walletAddress = app.handleConnect[i].address,
                          !.handleConnect[i] = NoConnect]
    /\ UNCHANGED <<contract, dapp, survey>>

\* onDisconnect (the button is rendered while isConnected is true):
\* setWalletAddress(null); setIsConnected(false); in an event handler.
HandleDisconnect ==
    /\ ~Rendering
    /\ app.isConnected
    /\ app' = [app EXCEPT !.walletAddress = "null", !.isConnected = FALSE]
    /\ UNCHANGED <<contract, dapp, survey>>

NextApp ==
    \/ \E i \in Connects, present \in BOOLEAN : HandleConnect(i, present)
    \/ \E i \in Connects, resolved \in BOOLEAN : EnableSettles(i, resolved)
    \/ \E i \in Connects, answer \in {"true", "false", "rejected"} :
         IsEnabledSettles(i, answer)
    \/ \E i \in Connects, answer \in WalletAddresses \cup {"rejected"} :
         StateSettles(i, answer)
    \/ \E i \in Connects : SetWalletAddress(i)
    \/ HandleDisconnect

SpecApp == Init /\ [][NextApp]_vars

\* ============================================== SurveyComponent, DApp
\* The walletAddress prop of PsycheScoreDApp and of SurveyComponent.
walletAddress == app.walletAddress

\* BIG_FIVE_QUESTIONS.map(q => responses[q.id])
SurveyResponsesOf(responses) == [i \in 1..NumQuestions |-> responses[i - 1]]

\* BIG_FIVE_QUESTIONS.filter(q => !responses[q.id])
UnansweredQuestions(responses) == {q \in QuestionIndex : responses[q] = Unanswered}

\* !surveyScore: null and 0 are both taken as absent.
NoScore(surveyScore) == surveyScore = {} \/ surveyScore = {0}

\* onChange of a radio button of the current question.
HandleResponse(value) ==
    /\ dapp.showSurvey
    /\ survey' = [survey EXCEPT !.responses[survey.currentQuestion] = value]
    /\ UNCHANGED <<contract, app, dapp>>

\* Variant of HandleNext: the Next button is never disabled.
HandleNextAlwaysEnabled ==
    /\ dapp.showSurvey
    /\ survey.currentQuestion < NumQuestions - 1
    /\ survey' = [survey EXCEPT !.currentQuestion = survey.currentQuestion + 1]
    /\ UNCHANGED <<contract, app, dapp>>

\* The Next button (rendered before the last question, disabled while the
\* current question has no answer) and handleNext.
HandleNext ==
    /\ dapp.showSurvey
    /\ survey.currentQuestion < NumQuestions - 1
    /\ survey.responses[survey.currentQuestion] # Unanswered
    /\ survey' = [survey EXCEPT !.currentQuestion =
                     IF survey.currentQuestion < NumQuestions - 1
                     THEN survey.currentQuestion + 1 ELSE survey.currentQuestion]
    /\ UNCHANGED <<contract, app, dapp>>

\* The Previous button (disabled at the first question) and handlePrevious.
HandlePrevious ==
    /\ dapp.showSurvey
    /\ survey.currentQuestion # 0
    /\ survey' = [survey EXCEPT !.currentQuestion =
                     IF survey.currentQuestion > 0
                     THEN survey.currentQuestion - 1 ELSE survey.currentQuestion]
    /\ UNCHANGED <<contract, app, dapp>>

\* The Submit button (rendered at the last question, disabled while it has no
\* answer or isSubmitting) and handleSubmit up to its fetch.
HandleSubmit(r) ==
    /\ dapp.showSurvey
    /\ survey.currentQuestion = NumQuestions - 1
    /\ survey.responses[survey.currentQuestion] # Unanswered
    /\ ~survey.isSubmitting
    /\ survey.request[r].pc = "none"
    /\ \A q \in Submits : q < r => survey.request[q].pc # "none"
    /\ CASE walletAddress = "null" ->
              /\ survey' = [survey EXCEPT !.error = "wallet address required"]
              /\ dapp' = [dapp EXCEPT !.lastSubmit = "no wallet"]
         [] walletAddress # "null" /\ UnansweredQuestions(survey.responses) # {} ->
              /\ survey' = [survey EXCEPT !.error = "answer all questions"]
              /\ dapp' = [dapp EXCEPT !.lastSubmit = "unanswered"]
         [] OTHER ->
              /\ survey' = [survey EXCEPT
                              !.isSubmitting = TRUE, !.error = "null",
                              !.request[r] =
                                 [pc |-> "fetch", wallet_address |-> walletAddress,
                                  survey_responses |-> SurveyResponsesOf(survey.responses)]]
              /\ dapp' = [dapp EXCEPT !.lastSubmit = "sent"]
    /\ UNCHANGED <<contract, app>>

\* Variant of SubmitFetchSettles: isSubmitting is reset at the end of the try
\* block, not in a finally block.
SubmitFetchSettlesNoFinally(r, outcome) ==
    /\ survey.request[r].pc = "fetch"
    /\ IF outcome = "ok"
       THEN /\ survey' = [survey EXCEPT !.request[r].pc = "json"]
            /\ dapp' = dapp
       ELSE /\ survey' = [survey EXCEPT !.error = outcome, !.request[r] = NoRequest]
            /\ dapp' = [dapp EXCEPT !.lastSubmit = outcome]
    /\ UNCHANGED <<contract, app>>

\* fetch settles: rejected or not ok, the catch block sets the error and the
\* finally block resets isSubmitting; ok, the handler awaits response.json().
SubmitFetchSettles(r, outcome) ==
    /\ survey.request[r].pc = "fetch"
    /\ IF outcome = "ok"
       THEN /\ survey' = [survey EXCEPT !.request[r].pc = "json"]
            /\ dapp' = dapp
       ELSE /\ survey' = [survey EXCEPT !.error = outcome, !.isSubmitting = FALSE,
                                        !.request[r] = NoRequest]
            /\ dapp' = [dapp EXCEPT !.lastSubmit = outcome]
    /\ UNCHANGED <<contract, app>>

\* handleSurveyComplete(responses, score) of PsycheScoreDApp.
HandleSurveyComplete(d, responses, score) ==
    [d EXCEPT !.surveyCompleted = TRUE, !.surveyScore = {score},
              !.surveyResponses = responses, !.showSurvey = FALSE]

\* Variant of SubmitJsonSettles: onSurveyComplete is called for a result that
\* does not report success.
SubmitJsonSettlesAnyResult(r, outcome, ml_score) ==
    /\ survey.request[r].pc = "json"
    /\ IF outcome = "rejected"
       THEN /\ survey' = [survey EXCEPT !.error = outcome, !.isSubmitting = FALSE,
                                        !.request[r] = NoRequest]
            /\ dapp' = [dapp EXCEPT !.lastSubmit = outcome]
       ELSE /\ survey' = SurveyInit
            /\ dapp' = [HandleSurveyComplete(dapp, survey.request[r].survey_responses,
                                             ml_score)
                          EXCEPT !.lastSubmit = outcome]
    /\ UNCHANGED <<contract, app>>

\* response.json() settles: with result.success, onSurveyComplete is called
\* with the responses sent and result.ml_score, and the survey is no longer
\* rendered; otherwise the catch block sets the error. The finally block
\* resets isSubmitting.
SubmitJsonSettles(r, outcome, ml_score) ==
    /\ survey.request[r].pc = "json"
    /\ IF outcome = "success"
       THEN /\ survey' = SurveyInit
            /\ dapp' = [HandleSurveyComplete(dapp, survey.request[r].survey_responses,
                                             ml_score)
                          EXCEPT !.lastSubmit = outcome]
       ELSE /\ survey' = [survey EXCEPT !.error = outcome, !.isSubmitting = FALSE,
                                        !.request[r] = NoRequest]
            /\ dapp' = [dapp EXCEPT !.lastSubmit = outcome]
    /\ UNCHANGED <<contract, app>>

\* The Start Survey button (no survey shown or completed) and the retake
\* button of the results: handleStartSurvey.
HandleStartSurvey ==
    /\ \/ ~dapp.showSurvey /\ ~dapp.surveyCompleted
       \/ dapp.surveyCompleted /\ dapp.surveyScore # {}
    /\ dapp' = [dapp EXCEPT !.showSurvey = TRUE, !.surveyCompleted = FALSE,
                            !.surveyScore = {}, !.surveyResponses = <<>>]
    /\ survey' = SurveyInit
    /\ UNCHANGED <<contract, app>>

\* The Submit Score to Blockchain button (rendered with the results, when
\* surveyCompleted && surveyScore !== null) and handleSubmitToBlockchain up to
\* its fetch.
HandleSubmitToBlockchain ==
    /\ dapp.surveyCompleted
    /\ dapp.surveyScore # {}
    /\ dapp.blockchain.pc = "none"
    /\ IF NoScore(dapp.surveyScore) \/ dapp.surveyResponses = <<>> \/ walletAddress = "null"
       THEN dapp' = [dapp EXCEPT !.alert = "missing data"]
       ELSE dapp' = [dapp EXCEPT !.alert = "none",
                                 !.blockchain =
                                    [pc |-> "fetch", wallet_address |-> walletAddress,
                                     survey_responses |-> dapp.surveyResponses]]
    /\ UNCHANGED <<contract, app, survey>>

\* The fetch of handleSubmitToBlockchain and its response.json() settle.
BlockchainSettles(outcome) ==
    /\ dapp.blockchain.pc \in {"fetch", "json"}
    /\ CASE dapp.blockchain.pc = "fetch" /\ outcome = "ok" ->
              dapp' = [dapp EXCEPT !.blockchain.pc = "json"]
         [] dapp.blockchain.pc = "json" /\ outcome = "ok" ->
              dapp' = [dapp EXCEPT !.blockchain = NoRequest, !.alert = "submitted"]
         [] OTHER ->
              dapp' = [dapp EXCEPT !.blockchain = NoRequest, !.alert = "failed"]
    /\ UNCHANGED <<contract, app, survey>>

\* PsycheScoreDApp is rendered while the app is connected: with the address
\* state() gave, or with null when state() was rejected.
InitSurvey ==
    /\ \E a \in WalletAddresses \cup {"null"} :
          app = [AppInit EXCEPT !.isConnected = TRUE, !.walletAddress = a]
    /\ dapp = DAppInit
    /\ survey = SurveyInit
    /\ InitContract

SubmitOutcomes == {"rejected", "http error", "ok"}

JsonOutcomes == {"rejected", "unsuccessful", "success"}

NextSurvey ==
    \/ \E v \in ResponseScale : HandleResponse(v)
    \/ HandleNext
    \/ HandlePrevious
    \/ \E r \in Submits : HandleSubmit(r)
    \/ \E r \in Submits, o \in SubmitOutcomes : SubmitFetchSettles(r, o)
    \/ \E r \in Submits, o \in JsonOutcomes, s \in MlScores : SubmitJsonSettles(r, o, s)
    \/ HandleStartSurvey
    \/ HandleSubmitToBlockchain
    \/ \E o \in {"ok", "failed"} : BlockchainSettles(o)

SpecSurvey == InitSurvey /\ [][NextSurvey]_vars

\* The backend answers every request: a fetch and a response.json() that are
\* awaited settle.
SpecSurveyFair ==
    /\ SpecSurvey
    /\ \A r \in Submits :
          /\ WF_vars(\E o \in SubmitOutcomes : SubmitFetchSettles(r, o))
          /\ WF_vars(\E o \in JsonOutcomes, s \in MlScores : SubmitJsonSettles(r, o, s))

TypeOK ==
    /\ DOMAIN user_scores \subseteq Address
    /\ DOMAIN score_commitments \subseteq Address
    /\ ml_model_hash \in HashVals
    /\ survey_responses = EmptyMap
    /\ app.isConnected \in BOOLEAN
    /\ app.walletAddress \in Address \cup {"null"}
    /\ \A c \in Calls : call[c].pc \in
         {"idle", "callCircuit", "assertRange", "verifyCommitment", "storeScore",
          "storeCommitment"}
    /\ \A a \in Address : latest[a].stored \in BOOLEAN

\* ================================================================ claims
\* The invocations inside computeAndStoreScore.
InFlight == {c \in Calls : call[c].pc # "idle"}

\* The entry of an address in a ledger: the score and the commitment it holds
\* (an empty set where the Map has no such key).
EntryIn(scores, commitments, a) ==
    [score |-> IF a \in DOMAIN scores THEN {scores[a]} ELSE {},
     commitment |-> IF a \in DOMAIN commitments THEN {commitments[a]} ELSE {}]

EntryOf(a) == EntryIn(user_scores, score_commitments, a)

Vacant == [score |-> {}, commitment |-> {}]

\* The invocation c leaves the circuit in this step.
Completes(c) == call[c].pc # "idle" /\ call'[c].pc = "idle"

\* The commitment of the responses of invocation c differs from the one supplied.
Mismatched(c) ==
    CalculateCommitment(call[c].encrypted_responses) # call[c].response_commitment

\* The score computed by invocation c is outside [0,100].
OutOfRange(c) == call[c].computed_score \notin 0..100

\* The (score, commitment) pair of invocation c.
PairOf(c) ==
    [score |-> {call[c].computed_score}, commitment |-> {call[c].response_commitment}]

\* C1: between invocations, every address that holds a score holds the
\* commitment of the responses that produced this score: the score and the
\* commitment are those of the last invocation that ran to its end for it.
C1_CommitmentOfStoredScore ==
    InFlight = {} =>
        \A a \in DOMAIN user_scores :
            /\ a \in DOMAIN score_commitments
            /\ latest[a].stored
            /\ user_scores[a] = latest[a].score
            /\ score_commitments[a] = latest[a].of_responses

\* C1 witness: a failed invocation has just returned for an address that holds a score.
C1_Witness ==
    /\ ret.op = "computeAndStoreScore"
    /\ ret.result # "ok"
    /\ ret.wallet_address \in DOMAIN user_scores
    /\ InFlight = {}

\* C2: every stored score is in 0..100, and an invocation reaches the ledger
\* writes only with a score in 0..100.
C2_StoredScoreInRange ==
    /\ \A a \in DOMAIN user_scores : user_scores[a] \in 0..100
    /\ \A c \in Calls :
         call[c].pc \in {"storeScore", "storeCommitment"} => call[c].computed_score \in 0..100

\* C2 witness: the score 100 is stored and a later invocation failed its range assert.
C2_Witness ==
    /\ \E a \in DOMAIN user_scores : user_scores[a] = 100
    /\ ret.op = "computeAndStoreScore"
    /\ ret.result = "RangeError"

C4_OutOfRangeRejected ==
    [][\A c \in Calls :
         (call[c].pc = "assertRange" /\ OutOfRange(c) /\ call'[c] # call[c]) =>
             /\ Completes(c)
             /\ ret'.op = "computeAndStoreScore"
             /\ ret'.result = "RangeError"
             /\ user_scores' = call[c].pre.scores
             /\ score_commitments' = call[c].pre.commitments]_vars

\* C4 witness: RangeError was returned for an address that holds a score.
C4_Witness ==
    /\ ret.op = "computeAndStoreScore"
    /\ ret.result = "RangeError"
    /\ ret.wallet_address \in DOMAIN user_scores

\* C5: at most one invocation is inside the circuit and no other operation
\* returns while it is; between invocations every address has both a score and
\* a commitment, those of one invocation, or neither.
C5_Atomic ==
    /\ Cardinality(InFlight) <= 1
    /\ InFlight # {} => ret.op = "none"
    /\ InFlight = {} =>
         \A a \in Address :
            \/ EntryOf(a) = Vacant /\ ~latest[a].stored
            \/ /\ latest[a].stored
               /\ EntryOf(a) = [score |-> {latest[a].score},
                                commitment |-> {latest[a].supplied}]

\* C5 witness: an invocation is between its two ledger writes: the score of the
\* address is the new one, the commitment still the one of an earlier invocation.
C5_Witness ==
    \E c \in Calls :
        /\ call[c].pc = "storeCommitment"
        /\ call[c].wallet_address \in DOMAIN score_commitments
        /\ score_commitments[call[c].wallet_address] # call[c].response_commitment
        /\ user_scores[call[c].wallet_address] = call[c].computed_score

\* The entry the last completed invocation for address a left.
LatestEntry(a) ==
    IF latest[a].stored
    THEN [score |-> {latest[a].score}, commitment |-> {latest[a].supplied}]
    ELSE Vacant

\* C6: when an invocation for an address ends, the entry of the address is the
\* whole pair of this invocation if it succeeded, and the whole pair left by
\* the invocation that succeeded last before it otherwise.
C6_OneWinner ==
    [][\A c \in Calls :
         Completes(c) =>
             EntryIn(user_scores', score_commitments', call[c].wallet_address) =
                 IF ret'.result = "ok" THEN PairOf(c) ELSE LatestEntry(call[c].wallet_address)]_vars

\* C6 witness: a second invocation succeeded for an address, with another
\* score and another commitment than the invocation before it.
C6_Witness ==
    \E c \in Calls :
        /\ call[c].pc = "storeScore"
        /\ latest[call[c].wallet_address].stored
        /\ latest[call[c].wallet_address].score # call[c].computed_score
        /\ latest[call[c].wallet_address].supplied # call[c].response_commitment

\* What an invocation returns when it runs alone.
AloneResult(c) ==
    IF OutOfRange(c) THEN "RangeError"
    ELSE IF Mismatched(c) THEN "CommitmentMismatch"
    ELSE "ok"

\* C7: a step of an invocation changes no entry of another address; when it
\* ends, its result and the entry of its address are those of a run alone from
\* the ledger it began with.
C7_DistinctIdentities ==
    [][\A c \in Calls :
         (call[c].pc # "idle" /\ call'[c] # call[c]) =>
             /\ \A b \in Address \ {call[c].wallet_address} :
                    EntryIn(user_scores', score_commitments', b) = EntryOf(b)
             /\ Completes(c) =>
                    /\ ret'.result = AloneResult(c)
                    /\ EntryIn(user_scores', score_commitments', call[c].wallet_address) =
                         IF AloneResult(c) = "ok"
                         THEN PairOf(c)
                         ELSE EntryIn(call[c].pre.scores, call[c].pre.commitments,
                                      call[c].wallet_address)]_vars

\* C7 witness: two addresses hold different entries and a third invocation is
\* about to write for one of them.
C7_Witness ==
    /\ EntryOf("addr1") # Vacant
    /\ EntryOf("addr2") # Vacant
    /\ EntryOf("addr1") # EntryOf("addr2")
    /\ \E c \in Calls : call[c].pc = "storeScore"

\* C8: verifyScore returns true if the last successful computeAndStoreScore
\* for the address stored the expected score, and false otherwise, also for
\* an address never written.
C8_VerifyIffStored ==
    ret.op = "verifyScore" =>
        ret.result = BoolStr(/\ latest[ret.wallet_address].stored
                             /\ latest[ret.wallet_address].score = ret.expected)

\* C9: a step in which verifyScore returns leaves both ledger maps and
\* ml_model_hash as they were.
C9_VerifyScoreReadsOnly ==
    [][ret'.op = "verifyScore" =>
         /\ user_scores' = user_scores
         /\ score_commitments' = score_commitments
         /\ ml_model_hash' = ml_model_hash]_vars

\* C9 witness: verifyScore has returned for a vacant address while the other
\* address holds an entry.
C9_Witness ==
    /\ ret.op = "verifyScore"
    /\ EntryOf(ret.wallet_address) = Vacant
    /\ \E a \in Address : EntryOf(a) # Vacant

ViaGenerateProof(c) == call[c].via = "generateProof"

\* C11: when an invocation made through generateProof fails, the ledger is
\* what it was before the call, and the caller is still handed the record of
\* the failed invocation (its guaranteed transcript).
C11_FailureKeepsGuaranteedTranscript ==
    [][\A c \in Calls :
         (/\ Completes(c) /\ ViaGenerateProof(c)
          /\ ret'.result \in {"RangeError", "CommitmentMismatch"}) =>
             /\ user_scores' = call[c].pre.scores
             /\ score_commitments' = call[c].pre.commitments
             /\ ret'.proof]_vars

\* C12: every call through generateProof, one that succeeds and one that
\* fails, hands its caller a proof record of the invocation.
C12_EveryCallYieldsProofRecord ==
    ret.op = "generateProof" => ret.proof

\* What the arguments of invocation c alone determine as its outcome.
OutcomeOfArguments(c) ==
    IF call[c].pc = "callCircuit" THEN "ShapeError" ELSE AloneResult(c)

\* C13: the score of an invocation made through generateProof is the value of
\* the scoring formula on its responses, features, weights and bias, and its
\* outcome and the entry it leaves are determined by this score, its responses
\* and its commitment; the timestamp of the context and the entry the address
\* held before take no part, so equal arguments give equal scores and outputs.
C13_OutputFromArgumentsOnly ==
    [][\A c \in Calls :
         ViaGenerateProof(c) =>
            /\ (call[c].pc = "callCircuit" /\ call'[c].pc = "assertRange") =>
                  call'[c].computed_score =
                     ComputeScore(call[c].encrypted_responses, call[c].koios_features,
                                  call[c].ml_model_weights, call[c].ml_model_bias)
            /\ (call[c].pc \notin {"idle", "callCircuit"} /\ call'[c].pc # "idle") =>
                  /\ call'[c].computed_score = call[c].computed_score
                  /\ call'[c].encrypted_responses = call[c].encrypted_responses
                  /\ call'[c].response_commitment = call[c].response_commitment
            /\ Completes(c) =>
                  /\ ret'.result = OutcomeOfArguments(c)
                  /\ ret'.result = "ok" =>
                        EntryIn(user_scores', score_commitments', call[c].wallet_address)
                           = PairOf(c)]_vars

\* An invocation with the later timestamp, for an address that already holds
\* an entry, is about to finish its writes.
C13_Witness ==
    \E c \in Calls :
        /\ ViaGenerateProof(c)
        /\ call[c].pc = "storeCommitment"
        /\ call[c].timestamp = 2
        /\ call[c].wallet_address \in DOMAIN call[c].pre.scores

\* C15: vectors that are not of the lengths the circuit declares are rejected
\* before anything is computed from them: generateProof never stands before the
\* call of the circuit, with the commitment of the responses calculated, for
\* vectors of another length.
C15_ShapeRejectedBeforeComputation ==
    \A c \in Calls :
        (ViaGenerateProof(c) /\ call[c].pc = "callCircuit") =>
            /\ WellShaped(call[c].encrypted_responses, call[c].koios_features,
                          call[c].ml_model_weights)
            /\ call[c].response_commitment = calculateCommitment(call[c].encrypted_responses)

\* C16: a step of computeAndStoreScore writes nothing but the score and the
\* commitment of its own address: user_scores changes only at this address and
\* to the computed score, score_commitments only at this address and to the
\* supplied commitment, ml_model_hash is left alone; and no step of any
\* operation puts anything into survey_responses.
C16_SelectiveDisclosure ==
    [][/\ survey_responses' = EmptyMap
       /\ \A c \in Calls :
            (call[c].pc # "idle" /\ call'[c] # call[c]) =>
               /\ ml_model_hash' = ml_model_hash
               /\ \A a \in Address \ {call[c].wallet_address} :
                     EntryIn(user_scores', score_commitments', a) = EntryOf(a)
               /\ user_scores' # user_scores =>
                     user_scores' = [x \in DOMAIN user_scores \cup {call[c].wallet_address} |->
                                       IF x = call[c].wallet_address
                                       THEN call[c].computed_score ELSE user_scores[x]]
               /\ score_commitments' # score_commitments =>
                     score_commitments' =
                        [x \in DOMAIN score_commitments \cup {call[c].wallet_address} |->
                           IF x = call[c].wallet_address
                           THEN call[c].response_commitment ELSE score_commitments[x]]]_vars

\* An invocation has succeeded while the other address holds an entry and the
\* model hash has been set.
C16_Witness ==
    /\ ret.op = "computeAndStoreScore"
    /\ ret.result = "ok"
    /\ ml_model_hash = 1
    /\ survey_responses = EmptyMap
    /\ \A a \in Address : EntryOf(a) # Vacant

\* C17: updateMLModel called with a signature that does not authorize the
\* caller fails with UnauthorizedError and leaves ml_model_hash as it was.
C17_UpdateNeedsAuthorization ==
    [][(ret'.op = "updateMLModel" /\ ret'.admin_signature # "valid") =>
          /\ ret'.result = "UnauthorizedError"
          /\ ml_model_hash' = ml_model_hash]_vars

\* The vectors that differ from responses in exactly one entry (entries on the
\* survey scale 1..5, and 0).
OneEntryChanged(responses) ==
    {[responses EXCEPT ![i] = v] : i \in DOMAIN responses, v \in 0..5} \ {responses}

\* C18: the commitment check of the circuit passes when the commitment supplied
\* is the one calculateCommitment gives for the responses of the invocation,
\* and fails with CommitmentMismatch when it is the one calculateCommitment
\* gives for a vector that differs from them in exactly one entry.
C18_CommitmentBindsResponses ==
    [][\A c \in Calls :
         (call[c].pc = "verifyCommitment" /\ call'[c] # call[c]) =>
            /\ call[c].response_commitment = calculateCommitment(call[c].encrypted_responses)
                  => call'[c].pc = "storeScore"
            /\ (\E original \in OneEntryChanged(call[c].encrypted_responses) :
                   call[c].response_commitment = calculateCommitment(original))
                  => (call'[c].pc = "idle" /\ ret'.result = "CommitmentMismatch")]_vars

\* An invocation has passed the commitment check with the commitment of its
\* own responses, for an address that holds an entry of an earlier invocation.
C18_Witness ==
    /\ \E c \in Calls :
          /\ call[c].pc = "storeScore"
          /\ call[c].response_commitment = calculateCommitment(call[c].encrypted_responses)
          /\ latest[call[c].wallet_address].stored

\* C19: no step of computeAndStoreScore, verifyScore or updateMLModel removes
\* an entry: an address that holds a score or a commitment holds one after
\* every step, and the entry of an address changes only in a ledger write of
\* an invocation of computeAndStoreScore for this address that has passed both
\* asserts.
C19_EntriesNeverDeleted ==
    [][\A a \in Address :
         /\ a \in DOMAIN user_scores => a \in DOMAIN user_scores'
         /\ a \in DOMAIN score_commitments => a \in DOMAIN score_commitments'
         /\ EntryIn(user_scores', score_commitments', a) # EntryOf(a) =>
               \E c \in Calls :
                  /\ call[c].wallet_address = a
                  /\ call[c].pc \in {"storeScore", "storeCommitment"}
                  /\ ~OutOfRange(c)
                  /\ ~Mismatched(c)]_vars

\* verifyScore has been called for an address that holds the entry of its
\* last successful invocation, and the model hash has been replaced.
C19_Witness ==
    /\ ret.op = "verifyScore"
    /\ EntryOf(ret.wallet_address) # Vacant
    /\ EntryOf(ret.wallet_address) = LatestEntry(ret.wallet_address)
    /\ ml_model_hash = 1

\* C20: the originalState of the context of an invocation made through
\* generateProof is the entry the address held just before the call: VACANT
\* exactly when the address held no entry.
C20_OriginalStateIsPriorEntry ==
    \A c \in Calls :
        (ViaGenerateProof(c) /\ call[c].pc # "idle") =>
            (call[c].originalState = "VACANT"
               <=> EntryIn(call[c].pre.scores, call[c].pre.commitments,
                           call[c].wallet_address) = Vacant)

\* C24: in handleConnect isEnabled() is called only when enable() has resolved,
\* state() is called only when isEnabled() has then returned true, and
\* isConnected becomes true only in the last step of a call to which
\* isEnabled() returned true.
C24_EnableThenIsEnabledThenState ==
    [][/\ \A i \in Connects :
            /\ (app'.handleConnect[i].pc = "isEnabled" /\ app.handleConnect[i].pc # "isEnabled")
                  => /\ app.handleConnect[i].pc = "enable"
                     /\ app'.handleConnect[i].enableResolved
            /\ (app'.handleConnect[i].pc = "state" /\ app.handleConnect[i].pc # "state")
                  => /\ app.handleConnect[i].pc = "isEnabled"
                     /\ app.handleConnect[i].enableResolved
                     /\ app'.handleConnect[i].isEnabled
       /\ (app'.isConnected /\ ~app.isConnected) =>
             \E i \in Connects :
                /\ app.handleConnect[i].pc = "state"
                /\ app'.handleConnect[i].pc # "state"
                /\ app.handleConnect[i].enableResolved
                /\ app.handleConnect[i].isEnabled]_vars

\* The app is connected with an address while a later call, whose isEnabled()
\* has returned true, awaits state().
C24_Witness ==
    /\ app.isConnected
    /\ app.walletAddress # "null"
    /\ \E i \in Connects :
          app.handleConnect[i].pc = "state" /\ app.handleConnect[i].isEnabled

BigFiveQuestionCount == 20

\* The length of encrypted_responses: [Field; 50], the 50 questions of the
\* documented survey.
EncryptedResponsesLength == 50

\* The requests of SurveyComponent that await the backend.
OpenSubmits == {r \in Submits : survey.request[r].pc # "none"}

\* C22: every response vector the survey component submits has one entry per
\* question, each an integer of the scale 1..5, and the questions are exactly 50.
C22_FiftyResponsesInScale ==
    \A r \in OpenSubmits :
       /\ Len(survey.request[r].survey_responses) = NumQuestions
       /\ \A i \in 1..NumQuestions : survey.request[r].survey_responses[i] \in 1..5
       /\ BigFiveQuestionCount = EncryptedResponsesLength

\* C23: handleSubmitToBlockchain raises the alert 'Missing required data' only
\* when the score, the responses or the wallet address is absent; with a score
\* (0 included), responses and a wallet address it sends the request.
C23_RefusesOnlyAbsentData ==
    [][/\ (dapp'.alert = "missing data" /\ dapp.alert # "missing data")
             => \/ dapp.surveyScore = {}
                \/ dapp.surveyResponses = <<>>
                \/ walletAddress = "null"
       /\ (dapp'.alert # dapp.alert /\ dapp.blockchain.pc = "none"
             /\ dapp.surveyScore # {} /\ dapp.surveyResponses # <<>>
             /\ walletAddress # "null")
             => dapp'.blockchain.pc = "fetch"]_vars

\* The Submit button is rendered and not disabled.
SubmitEnabled ==
    /\ dapp.showSurvey
    /\ survey.currentQuestion = NumQuestions - 1
    /\ survey.responses[survey.currentQuestion] # Unanswered
    /\ ~survey.isSubmitting

\* C27: currentQuestion is an index of a question, every question below it
\* has an answer, and while the Submit button is enabled every question has
\* an answer.
C27_AnsweredBelowCurrent ==
    /\ survey.currentQuestion \in QuestionIndex
    /\ \A q \in QuestionIndex :
          q < survey.currentQuestion => survey.responses[q] # Unanswered
    /\ SubmitEnabled => UnansweredQuestions(survey.responses) = {}

\* Every question has the answer 5 and the Submit button is enabled, with no
\* error shown.
C27_Witness ==
    /\ SubmitEnabled
    /\ survey.error = "null"
    /\ \A q \in QuestionIndex : survey.responses[q] = 5

\* The ways a handleSubmit call ends without calling onSurveyComplete.
SubmitFailures == {"no wallet", "unanswered", "rejected", "http error", "unsuccessful"}

\* C28: onSurveyComplete is called only by a handleSubmit call that sent its
\* request with a wallet address and an answer to every question, whose
\* response was ok and whose body reports success, and that call is then over;
\* a handleSubmit call that ends in any other way does not call it and sets
\* the error.
C28_CompleteOnlyOnSuccess ==
    [][/\ (dapp'.surveyCompleted /\ ~dapp.surveyCompleted) =>
             \E r \in Submits :
                /\ survey.request[r].pc = "json"
                /\ survey.request[r].wallet_address # "null"
                /\ Len(survey.request[r].survey_responses) = NumQuestions
                /\ \A i \in 1..NumQuestions :
                      survey.request[r].survey_responses[i] # Unanswered
                /\ dapp'.lastSubmit = "success"
                /\ dapp'.surveyResponses = survey.request[r].survey_responses
                /\ survey'.request[r].pc = "none"
       /\ (dapp'.lastSubmit \in SubmitFailures /\ dapp'.lastSubmit # dapp.lastSubmit) =>
             /\ dapp'.surveyCompleted = dapp.surveyCompleted
             /\ dapp'.surveyScore = dapp.surveyScore
             /\ survey'.error # "null"]_vars

\* onSurveyComplete has been called with the score 50 of a successful request,
\* and no request is open.
C28_Witness ==
    /\ dapp.surveyCompleted
    /\ dapp.lastSubmit = "success"
    /\ dapp.surveyScore = {50}
    /\ Len(dapp.surveyResponses) = NumQuestions
    /\ OpenSubmits = {}

\* C29: a handleSubmit call that has set isSubmitting to true sets it to false
\* once its request has settled, which it does when the backend answers; and
\* at most one request is open at a time, isSubmitting being true exactly
\* while one is.
C29_SubmittingEnds ==
    /\ [](Cardinality(OpenSubmits) <= 1)
    /\ [](survey.isSubmitting <=> OpenSubmits # {})
    /\ (survey.isSubmitting ~> ~survey.isSubmitting)

\* The response to the single open request is ok and its body is awaited,
\* with isSubmitting true.
C29_Witness ==
    /\ survey.isSubmitting
    /\ \E r \in Submits : OpenSubmits = {r} /\ survey.request[r].pc = "json"

C30_FailuresAreReturned ==
    /\ [](ret.op = "generateProof" =>
             /\ ~ret.thrown
             /\ ret.proof <=> ret.result = "ok"
             /\ ret.result \in {"ok", "RangeError", "CommitmentMismatch", "ShapeError"})
    /\ [][\A c \in Calls :
            (Completes(c) /\ ViaGenerateProof(c)) =>
               /\ ret'.op = "generateProof"
               /\ ret'.proof <=> call[c].pc = "storeCommitment"]_vars

\* A call of generateProof whose circuit failed the range assert has ended
\* with { success: false, error }, no exception and no proofData.
C30_Witness ==
    /\ ret.op = "generateProof"
    /\ ret.result = "RangeError"
    /\ ~ret.proof
    /\ ~ret.thrown
    /\ Idle

====
